---- MODULE Spec2Model ----
(***************************************************************************)
(* A model of ctapipe's deep-learning reconstruction core                  *)
(* (ctapipe/reco/DeepLearningReconstructor.py: ONNXModel and               *)
(* DeepLearningReconstructor) and of the HESSIO event generator            *)
(* (ctapipe/io/hessio.py: hessio_event_source).                            *)
(*                                                                         *)
(* Every error of DeepLearningReconstructor.py is a Python ValueError; the *)
(* model tells the raise sites apart and gives each the name the           *)
(* specification uses for it.                                              *)
(***************************************************************************)
EXTENDS Integers, Sequences, FiniteSets, TLC

VARIABLES
    sess,          \* ONNXModel: the loaded session (path and declared inputs), or NoSess
    mcall,         \* ONNXModel.predict: the arguments of the call being served
    mres,          \* ONNXModel.predict: its outcome (value returned or error raised)
    runs,          \* the feeds handed to sess.run, in order
    rphase,        \* DeepLearningReconstructor: position of the caller
    models,        \* DeepLearningReconstructor.models: camera name -> ONNXModel
    ctor,          \* outcome of DeepLearningReconstructor.__init__
    event,         \* the (tels_dict, subarray) of the predict call being served
    pres,          \* outcome of DeepLearningReconstructor.predict
    hpc,           \* hessio_event_source: position of the generator
    hargs,         \* hessio_event_source: its arguments and the stream behind url
    counter,       \* hessio_event_source: the local counter
    cont,          \* hessio_event_source: the container last filled
    herr,          \* hessio_event_source: the exception that ended it, if any
    yielded        \* hessio_event_source: the events yielded so far

mvars == <<sess, mcall, mres, runs>>
rvars == <<rphase, models, ctor, event, pres>>
hvars == <<hpc, hargs, counter, cont, herr, yielded>>
vars == <<sess, mcall, mres, runs, rphase, models, ctor, event, pres,
          hpc, hargs, counter, cont, herr, yielded>>

----------------------------------------------------------------------------
(* Bounds of the model. *)

\* leading lengths (batch sizes) of the tensors drawn as inputs: 1..MaxBatch
MaxBatch == 2
\* most positional arguments drawn for one ONNXModel.predict call
MaxArgs == 2
\* most telescopes in one event's tels_dict
MaxTels == 3
\* longest event stream behind a url
MaxStream == 6
\* largest max_events drawn
MaxMaxEvents == 5

----------------------------------------------------------------------------
(* Values. *)

\* The empty mapping (an empty Python dict).
EmptyMap == <<>>

\* numpy arrays of either float width, and plain Python lists of floats.
Tensors ==
    { [len |-> n, dtype |-> d, kind |-> "ndarray", items |-> <<>>] :
        n \in 1..MaxBatch, d \in {"float32", "float64"} }
    \cup { [len |-> 1, dtype |-> "float64", kind |-> "list", items |-> <<>>] }

\* A Python tuple of tensors seen as one value: len() is its element count.
TupleValue(items) ==
    [len |-> Len(items), dtype |-> "object", kind |-> "tuple", items |-> items]

\* The serialized models on disk: path -> declared input names, in order.
\* "missing.onnx" cannot be loaded by the backend.
ModelPaths == {"none.onnx", "one.onnx", "two.onnx", "missing.onnx"}

Loadable(path) == path # "missing.onnx"

DeclaredInputs(path) ==
    CASE path = "none.onnx" -> <<>>
      [] path = "one.onnx"  -> <<"x">>
      [] path = "two.onnx"  -> <<"x", "y">>
      [] OTHER              -> <<>>

\* Names a caller may use for named arguments ("z" is declared by no model).
ArgNames == {"x", "y", "z"}

NoSess == [path |-> "", inputs |-> <<>>, loaded |-> FALSE]

----------------------------------------------------------------------------
(* ONNXModel *)

\* ONNXModel.__init__: the session, or the load error.
ONNXModel(path) ==
    IF Loadable(path)
    THEN [path |-> path, inputs |-> DeclaredInputs(path), loaded |-> TRUE]
    ELSE NoSess

\* sess.run(None, feed): the backend is opaque; its output is a function of
\* the model and of the feed alone. An outcome of kind "ok" says that predict
\* passed its own checks and returned what sess.run gave for that feed.
SessRun(s, feed) == [model |-> s.path, feed |-> feed]

NoOutput == [model |-> "", feed |-> EmptyMap]

Raise(e) == [kind |-> e, feed |-> EmptyMap, out |-> NoOutput, ran |-> FALSE]

Return(s, feed) ==
    [kind |-> "ok", feed |-> feed, out |-> SessRun(s, feed), ran |-> TRUE]

BindPositionalReversed(inputs, args, kwargs) ==
    [ name \in (DOMAIN kwargs) \cup { inputs[i] : i \in 1..Len(inputs) } |->
        IF \E i \in 1..Len(inputs) : inputs[i] = name
        THEN args[Len(inputs) + 1 - (CHOOSE i \in 1..Len(inputs) : inputs[i] = name)]
        ELSE kwargs[name] ]

\* lines 49-51: kwargs[self.inputs[i].name] = args[i] for i in range(n_inputs)
BindPositional(inputs, args, kwargs) ==
    LET slots == { inputs[i] : i \in 1..Len(inputs) }
        last(name) == CHOOSE i \in 1..Len(inputs) :
                          /\ inputs[i] = name
                          /\ \A j \in 1..Len(inputs) : inputs[j] = name => j <= i
    IN [ name \in (DOMAIN kwargs) \cup slots |->
            IF name \in slots THEN args[last(name)] ELSE kwargs[name] ]

\* lines 57-62: float64 numpy arrays are converted to float32
Narrow(v) ==
    IF v.kind = "ndarray" /\ v.dtype = "float64"
    THEN [v EXCEPT !.dtype = "float32"]
    ELSE v

NarrowAll(kwargs) == [ name \in DOMAIN kwargs |-> Narrow(kwargs[name]) ]

\* line 35: no argument at all
NoArguments(n_args, n_kwargs) == n_kwargs = 0 /\ n_args = 0

MixedArgumentsIgnored(n_args, n_kwargs) == FALSE

\* line 39: positional and named arguments together
MixedArguments(n_args, n_kwargs) == n_kwargs # 0 /\ n_args # 0

\* line 44: the arity check
ArityMismatch(n_inputs, n_args, n_kwargs) ==
    n_kwargs # n_inputs /\ n_args # n_inputs

BatchMismatchAboveTwo(kwargs) ==
    Cardinality({ kwargs[name].len : name \in DOMAIN kwargs }) > 2

\* lines 53-54: the batch check
BatchMismatch(kwargs) ==
    Cardinality({ kwargs[name].len : name \in DOMAIN kwargs }) # 1

\* ONNXModel.predict(*args, **kwargs), lines 34-63
ModelPredict(s, args, kwargs) ==
    LET n_inputs == Len(s.inputs)
        n_args   == Len(args)
        n_kwargs == Cardinality(DOMAIN kwargs)
    IN  IF NoArguments(n_args, n_kwargs) THEN Raise("InvalidArgumentUsageError")
        ELSE IF MixedArguments(n_args, n_kwargs)
             THEN Raise("InvalidArgumentUsageError")
        ELSE IF ArityMismatch(n_inputs, n_args, n_kwargs)
             THEN Raise("ArityMismatchError")
        ELSE LET bound == IF n_args # 0
                          THEN BindPositional(s.inputs, args, kwargs)
                          ELSE kwargs
             IN IF BatchMismatch(bound) THEN Raise("BatchSizeMismatchError")
                ELSE Return(s, NarrowAll(bound))

\* The argument lists and keyword mappings drawn for a call.
ArgLists == UNION { [1..n -> Tensors] : n \in 0..MaxArgs }

KwargMaps == UNION { [names -> Tensors] : names \in SUBSET ArgNames }

NoCall == [args |-> <<>>, kwargs |-> EmptyMap]

NoResult == [kind |-> "none", feed |-> EmptyMap, out |-> NoOutput, ran |-> FALSE]

MInit ==
    /\ sess = NoSess
    /\ mcall = NoCall
    /\ mres = NoResult
    /\ runs = <<>>

\* model = ONNXModel(path); a path that does not load leaves no model
Load ==
    /\ ~sess.loaded
    /\ \E path \in ModelPaths : sess' = ONNXModel(path)
    /\ UNCHANGED <<mcall, mres, runs>>
    /\ UNCHANGED <<rvars, hvars>>

\* model.predict(*args, **kwargs), the whole call
CallPredict ==
    /\ sess.loaded
    /\ mres.kind = "none"
    /\ \E args \in ArgLists, kwargs \in KwargMaps :
          /\ mcall' = [args |-> args, kwargs |-> kwargs]
          /\ mres' = ModelPredict(sess, args, kwargs)
    /\ runs' = IF mres'.ran THEN Append(runs, mres'.feed) ELSE runs
    /\ UNCHANGED sess
    /\ UNCHANGED <<rvars, hvars>>

\* the caller takes the value or the exception; the model is ready again
TakeResult ==
    /\ mres.kind # "none"
    /\ mcall' = NoCall
    /\ mres' = NoResult
    /\ runs' = <<>>
    /\ UNCHANGED sess
    /\ UNCHANGED <<rvars, hvars>>

ModelNext == Load \/ CallPredict \/ TakeResult

----------------------------------------------------------------------------
(* DeepLearningReconstructor *)

\* supported_cameras of the concrete reconstructor, in declared order.
SupportedCameras == <<"A", "B", "C">>

Supported == { SupportedCameras[i] : i \in 1..Len(SupportedCameras) }

\* Camera names a configuration may name ("D" is not supported).
ConfigCameras == {"A", "B", "D"}

ConfigPaths == {"one.onnx", "two.onnx", "missing.onnx"}

\* models_paths: camera name -> path
Configs == UNION { [cams -> ConfigPaths] : cams \in SUBSET ConfigCameras }

\* subarray.tel[tel_id].camera.geometry.camera_name
TelCamera(tel_id) ==
    CASE tel_id \in {1, 2} -> "A"
      [] tel_id = 3        -> "B"
      [] OTHER             -> "C"

TelIds == 1..MaxTels

TensorA == [len |-> 1, dtype |-> "float64", kind |-> "ndarray", items |-> <<>>]

TensorB == [len |-> 2, dtype |-> "float32", kind |-> "ndarray", items |-> <<>>]

\* One telescope's model-ready input: a list, a tuple, a dict or anything else.
Input(shape, items, named) == [shape |-> shape, items |-> items, named |-> named]

Inputs ==
    { Input("list", <<TensorA>>, EmptyMap),
      Input("list", <<TensorA, TensorB>>, EmptyMap),
      Input("list", <<>>, EmptyMap),
      Input("tuple", <<TensorA, TensorA>>, EmptyMap),
      Input("dict", <<>>, [name \in {"x"} |-> TensorA]),
      Input("bare", <<TensorB>>, EmptyMap) }

\* The value of an input that is neither a list nor a dict.
AsValue(inp) ==
    IF inp.shape = "tuple" THEN TupleValue(inp.items) ELSE inp.items[1]

\* tels_dict: telescope id -> input, in insertion order
Events ==
    { e \in UNION { [1..n -> [tel : TelIds, inp : Inputs]] : n \in 0..MaxTels } :
        \A i, j \in 1..Len(e) : e[i].tel = e[j].tel => i = j }

\* lines 105-107: one ONNXModel per configured path
LoadModels(models_paths) ==
    [ cam_name \in DOMAIN models_paths |-> ONNXModel(models_paths[cam_name]) ]

NotSupportedCamsInverted(ms) == { cam_name \in DOMAIN ms : cam_name \in Supported }

\* lines 108-112 (the code keeps them as a list in configuration order)
NotSupportedCams(ms) == { cam_name \in DOMAIN ms : cam_name \notin Supported }

\* DeepLearningReconstructor.__init__, lines 105-119: its outcome
Construct(models_paths) ==
    IF \E cam_name \in DOMAIN models_paths : ~Loadable(models_paths[cam_name])
    THEN [kind |-> "ModelLoadError", cams |-> {}, models |-> EmptyMap,
          paths |-> models_paths]
    ELSE LET ms == LoadModels(models_paths)
         IN IF Cardinality(NotSupportedCams(ms)) > 0
            THEN [kind |-> "UnsupportedCameraError",
                  cams |-> NotSupportedCams(ms), models |-> ms,
                  paths |-> models_paths]
            ELSE [kind |-> "ok", cams |-> {}, models |-> ms, paths |-> models_paths]

DispatchArgsAnySequence(inp) ==
    IF inp.shape \in {"list", "tuple"} THEN [args |-> inp.items, kwargs |-> EmptyMap]
    ELSE IF inp.shape = "dict" THEN [args |-> <<>>, kwargs |-> inp.named]
    ELSE [args |-> <<AsValue(inp)>>, kwargs |-> EmptyMap]

\* lines 163-169: how one input is handed to model.predict
DispatchArgs(inp) ==
    IF inp.shape = "list" THEN [args |-> inp.items, kwargs |-> EmptyMap]
    ELSE IF inp.shape = "dict" THEN [args |-> <<>>, kwargs |-> inp.named]
    ELSE [args |-> <<AsValue(inp)>>, kwargs |-> EmptyMap]

ObsInputsReversed(tels_dict, cam_name) ==
    LET obs == SelectSeq(tels_dict, LAMBDA e : TelCamera(e.tel) = cam_name)
    IN [ i \in 1..Len(obs) |-> obs[Len(obs) + 1 - i] ]

\* lines 156-160: the inputs of the telescopes of one camera, in tels_dict order
ObsInputs(tels_dict, cam_name) ==
    SelectSeq(tels_dict, LAMBDA e : TelCamera(e.tel) = cam_name)

StartCameraLazily(st, cam_name) == st

\* line 162: predictions[cam_name] = list()
StartCamera(st, cam_name) ==
    [st EXCEPT !.predictions = (cam_name :> <<>>) @@ @]

\* lines 163-169: one model call per input, in order; an error leaves the loop
RECURSIVE PredictInputs(_, _, _, _, _)
PredictInputs(model, cam_name, obs, i, st) ==
    IF i > Len(obs) THEN st
    ELSE LET d == DispatchArgs(obs[i].inp)
             r == ModelPredict(model, d.args, d.kwargs)
             called == [st EXCEPT !.calls = Append(@,
                           [cam |-> cam_name, tel |-> obs[i].tel, args |-> d.args,
                            kwargs |-> d.kwargs, kind |-> r.kind])]
         IN IF r.kind # "ok" THEN [called EXCEPT !.err = r.kind]
            ELSE PredictInputs(model, cam_name, obs, i + 1,
                    [called EXCEPT !.predictions[cam_name] = Append(@, r.out)])

\* lines 150-152: a supported camera without a model is skipped
HasModel(ms, cam_name) == cam_name \in DOMAIN ms

\* lines 149-169: the loop over supported_cameras from position i
RECURSIVE PredictCameras(_, _, _, _)
PredictCameras(ms, tels_dict, i, st) ==
    IF i > Len(SupportedCameras) THEN st
    ELSE LET cam_name == SupportedCameras[i]
         IN IF ~HasModel(ms, cam_name)
            THEN PredictCameras(ms, tels_dict, i + 1, st)
            ELSE LET done == PredictInputs(ms[cam_name], cam_name,
                                 ObsInputs(tels_dict, cam_name), 1,
                                 StartCamera(st, cam_name))
                 IN IF done.err # "none" THEN done
                    ELSE PredictCameras(ms, tels_dict, i + 1, done)

\* self._reconstruct(predictions): abstract; a function of its argument alone
Reconstruct(predictions) == [shower |-> predictions]

NoShower == [shower |-> EmptyMap]

PredictPartial(ms, tels_dict) ==
    LET st == PredictCameras(ms, tels_dict, 1,
                  [predictions |-> EmptyMap, calls |-> <<>>, err |-> "none"])
    IN [kind |-> IF st.err # "none" THEN st.err ELSE "ok", calls |-> st.calls,
        combined |-> <<st.predictions>>, result |-> Reconstruct(st.predictions)]

\* DeepLearningReconstructor.predict, lines 148-170: its outcome
Predict(ms, tels_dict) ==
    LET st == PredictCameras(ms, tels_dict, 1,
                  [predictions |-> EmptyMap, calls |-> <<>>, err |-> "none"])
    IN IF st.err # "none"
       THEN [kind |-> st.err, calls |-> st.calls, combined |-> <<>>,
             result |-> NoShower]
       ELSE [kind |-> "ok", calls |-> st.calls, combined |-> <<st.predictions>>,
             result |-> Reconstruct(st.predictions)]

NoCtor == [kind |-> "none", cams |-> {}, models |-> EmptyMap, paths |-> EmptyMap]

NoPredict == [kind |-> "none", calls |-> <<>>, combined |-> <<>>, result |-> NoShower]

RInit ==
    /\ rphase = "new"
    /\ models = EmptyMap
    /\ ctor = NoCtor
    /\ event = <<>>
    /\ pres = NoPredict

\* reco = SomeReconstructor(models_paths)
New ==
    /\ rphase = "new"
    /\ \E models_paths \in Configs :
          /\ ctor' = Construct(models_paths)
          /\ models' = ctor'.models
    /\ rphase' = IF ctor'.kind = "ok" THEN "ready" ELSE "failed"
    /\ UNCHANGED <<event, pres>>
    /\ UNCHANGED <<mvars, hvars>>

\* reco.predict(tels_dict, subarray), the whole call
CallReconstructor ==
    /\ rphase = "ready"
    /\ \E tels_dict \in Events :
          /\ event' = tels_dict
          /\ pres' = Predict(models, tels_dict)
    /\ rphase' = IF pres'.kind = "ok" THEN "returned" ELSE "raised"
    /\ UNCHANGED <<models, ctor>>
    /\ UNCHANGED <<mvars, hvars>>

\* the caller takes the shower or the exception and goes on to the next event
NextEvent ==
    /\ rphase \in {"returned", "raised"}
    /\ rphase' = "ready"
    /\ event' = <<>>
    /\ pres' = NoPredict
    /\ UNCHANGED <<models, ctor>>
    /\ UNCHANGED <<mvars, hvars>>

RecoNext == New \/ CallReconstructor \/ NextEvent

----------------------------------------------------------------------------
(* hessio_event_source *)

\* max_events: None when omitted (line 21), else a non-negative integer
MaxEventsArgs ==
    { [given |-> FALSE, value |-> 0] }
    \cup { [given |-> TRUE, value |-> n] : n \in 0..MaxMaxEvents }

\* url opens or not; the stream behind it holds n_events events
SourceArgs == [url_ok : BOOLEAN, max_events : MaxEventsArgs, n_events : 0..MaxStream]

NoArgs == [url_ok |-> FALSE, max_events |-> [given |-> FALSE, value |-> 0], n_events |-> 0]

\* the i-th (run_id, event_id) of hessio.move_to_next_event()
StreamEvent(i) == [run_id |-> 1, event_id |-> i]

NoEvent == [run_id |-> 0, event_id |-> 0]

\* line 82: counter > max_events. Comparing an int with None raises TypeError
\* (Python 3, the language of the package).
LimitCheck(c, max_events) ==
    IF ~max_events.given THEN "TypeError"
    ELSE IF c > max_events.value THEN "return"
    ELSE "continue"

\* line 55: the for loop takes the next event of the stream, or ends
LoopHead(g) ==
    IF Len(g.yielded) < g.args.n_events
    THEN LET ev == StreamEvent(Len(g.yielded) + 1)
         IN [g EXCEPT !.cont = ev, !.yielded = Append(@, ev.event_id),
                      !.pc = "suspended"]
    ELSE [g EXCEPT !.pc = "returned"]

\* next(generator): runs the body up to the next yield, return or raise
Resume(g) ==
    IF g.pc = "created"
    THEN \* lines 33-55
         IF ~g.args.url_ok THEN [g EXCEPT !.pc = "raised", !.err = "RuntimeError"]
         ELSE LoopHead([g EXCEPT !.counter = 0])
    ELSE \* lines 80-83, then line 55
         LET c == g.counter + 1
             check == LimitCheck(c, g.args.max_events)
         IN IF check = "TypeError"
            THEN [g EXCEPT !.counter = c, !.pc = "raised", !.err = "TypeError"]
            ELSE IF check = "return"
            THEN [g EXCEPT !.counter = c, !.pc = "returned"]
            ELSE LoopHead([g EXCEPT !.counter = c])

Generator ==
    [pc |-> hpc, args |-> hargs, counter |-> counter, cont |-> cont,
     err |-> herr, yielded |-> yielded]

HInit ==
    /\ hpc = "idle"
    /\ hargs = NoArgs
    /\ counter = 0
    /\ cont = NoEvent
    /\ herr = "none"
    /\ yielded = <<>>

\* gen = hessio_event_source(url, max_events): no line of the body runs yet
CallSource ==
    /\ hpc = "idle"
    /\ \E a \in SourceArgs : hargs' = a
    /\ hpc' = "created"
    /\ UNCHANGED <<counter, cont, herr, yielded>>
    /\ UNCHANGED <<mvars, rvars>>

\* next(gen)
NextOnSource ==
    /\ hpc \in {"created", "suspended"}
    /\ LET g == Resume(Generator)
       IN /\ hpc' = g.pc
          /\ counter' = g.counter
          /\ cont' = g.cont
          /\ herr' = g.err
          /\ yielded' = g.yielded
    /\ UNCHANGED hargs
    /\ UNCHANGED <<mvars, rvars>>

SourceNext == CallSource \/ NextOnSource

----------------------------------------------------------------------------
(* Specifications: one per component, the others at rest. *)

Init == MInit /\ RInit /\ HInit

SpecModel == Init /\ [][ModelNext]_vars

SpecReco == Init /\ [][RecoNext]_vars

SpecSource == Init /\ [][SourceNext]_vars

----------------------------------------------------------------------------
(* Properties of ONNXModel.predict, checked under SpecModel. *)

\* The call being served, as the caller wrote it.
Served == mres.kind # "none"

NArgs == Len(mcall.args)

NKwargs == Cardinality(DOMAIN mcall.kwargs)

NInputs == Len(sess.inputs)

\* the leading lengths of the values the caller supplied
SuppliedLens ==
    { mcall.args[i].len : i \in 1..NArgs }
    \cup { mcall.kwargs[name].len : name \in DOMAIN mcall.kwargs }

\* the named call equivalent to a positional one: the i-th value under the
\* name of the i-th declared input
NamedEquivalent(inputs, args) ==
    [ name \in { inputs[i] : i \in 1..Len(inputs) } |->
        args[CHOOSE i \in 1..Len(inputs) : inputs[i] = name] ]

\* C1: a call with no argument at all, or with positional and named
\* arguments together, fails with InvalidArgumentUsageError whatever the
\* model's input count and the values, and the backend is not run.
C1_InvalidUsage ==
    (Served /\ ((NArgs = 0 /\ NKwargs = 0) \/ (NArgs > 0 /\ NKwargs > 0)))
        => /\ mres.kind = "InvalidArgumentUsageError"
           /\ ~mres.ran
           /\ runs = <<>>

\* a mixed call whose counts would otherwise fit the model
C1_Witness ==
    /\ Served
    /\ NInputs = 2 /\ NArgs = 1 /\ NKwargs = 1
    /\ SuppliedLens = {1}
    /\ mres.kind = "InvalidArgumentUsageError"

\* C2 (as claimed): a call of one convention only whose argument count
\* differs from the model's input count N (N = 0 included) fails with
\* ArityMismatchError.
C2_ArityMismatch ==
    (/\ Served
     /\ (NArgs = 0) # (NKwargs = 0)
     /\ NArgs + NKwargs # NInputs)
        => mres.kind = "ArityMismatchError" /\ ~mres.ran

\* C3: a call of one convention with exactly N values fails with
\* BatchSizeMismatchError, the backend not run, when the values do not all
\* have the same leading length; when they do, the batch check passes and
\* the backend is run.
C3_BatchCheck ==
    (/\ Served
     /\ (NArgs = 0) # (NKwargs = 0)
     /\ NArgs + NKwargs = NInputs)
        => IF Cardinality(SuppliedLens) # 1
           THEN mres.kind = "BatchSizeMismatchError" /\ ~mres.ran /\ runs = <<>>
           ELSE mres.kind = "ok" /\ runs = <<mres.feed>>

\* two named values of different lengths (the lengths 3 and 4 of the example)
C3_Witness ==
    /\ Served
    /\ NInputs = 2 /\ NKwargs = 2 /\ NArgs = 0
    /\ Cardinality(SuppliedLens) = 2
    /\ mres.kind = "BatchSizeMismatchError"

\* C4 (as claimed): a call with exactly N positional arguments succeeds and
\* gives the backend the feed, so the output, of the equivalent named call.
C4_PositionalSucceeds ==
    (Served /\ NKwargs = 0 /\ NArgs = NInputs)
        => /\ mres.kind = "ok"
           /\ mres = ModelPredict(sess, <<>>, NamedEquivalent(sess.inputs, mcall.args))

\* C4 (amended): a call with exactly N positional arguments has the outcome
\* of the equivalent named call, the same error or the same feed and output;
\* it succeeds when N >= 1 and the values share one leading length, and the
\* feed then binds the i-th value (narrowed to float32) to the i-th input name.
C4_ConventionEquivalence ==
    (Served /\ NKwargs = 0 /\ NArgs = NInputs)
        => /\ mres = ModelPredict(sess, <<>>, NamedEquivalent(sess.inputs, mcall.args))
           /\ (NInputs >= 1 /\ Cardinality(SuppliedLens) = 1)
                => /\ mres.kind = "ok"
                   /\ runs = <<mres.feed>>
                   /\ DOMAIN mres.feed = { sess.inputs[i] : i \in 1..NInputs }
                   /\ \A i \in 1..NInputs :
                        mres.feed[sess.inputs[i]] = Narrow(mcall.args[i])

\* two different positional values reach the backend under "x" and "y"
C4_Witness ==
    /\ Served
    /\ NInputs = 2 /\ NArgs = 2 /\ NKwargs = 0
    /\ mcall.args[1] # mcall.args[2]
    /\ mcall.args[1].dtype = "float64"
    /\ mres.kind = "ok"

----------------------------------------------------------------------------
(* Properties of DeepLearningReconstructor, checked under SpecReco. *)

Constructed == ctor.kind # "none"

\* the configured camera names outside the supported set
Offending == { cam_name \in DOMAIN ctor.paths : cam_name \notin Supported }

AllLoad == \A cam_name \in DOMAIN ctor.paths : Loadable(ctor.paths[cam_name])

\* C5 (as claimed): construction succeeds when every configured camera is
\* supported, and fails with UnsupportedCameraError naming exactly the
\* offending cameras, leaving no usable instance, whenever there is one.
C5_CameraSupport ==
    Constructed =>
        /\ (Offending = {}) => (ctor.kind = "ok" /\ rphase # "failed")
        /\ (Offending # {}) => /\ ctor.kind = "UnsupportedCameraError"
                               /\ ctor.cams = Offending
                               /\ rphase = "failed"

\* C5 (amended): when every configured model file loads, construction
\* succeeds (with one model per configured camera) if every configured
\* camera is supported, and otherwise fails with UnsupportedCameraError naming
\* exactly the offending cameras; when a model file does not load,
\* construction fails with ModelLoadError, whatever the cameras. A failed
\* construction leaves no usable instance.
C5_CameraSupportWhenLoaded ==
    Constructed =>
        /\ (AllLoad /\ Offending = {})
              => /\ ctor.kind = "ok"
                 /\ rphase # "failed"
                 /\ DOMAIN models = DOMAIN ctor.paths
        /\ (AllLoad /\ Offending # {})
              => /\ ctor.kind = "UnsupportedCameraError"
                 /\ ctor.cams = Offending
                 /\ rphase = "failed"
        /\ ~AllLoad => (ctor.kind = "ModelLoadError" /\ rphase = "failed")
        /\ (rphase = "failed") => (pres = NoPredict)

\* {A, D} configured against the supported {A, B, C}: D is named
C5_Witness ==
    /\ DOMAIN ctor.paths = {"A", "D"}
    /\ ctor.kind = "UnsupportedCameraError"
    /\ ctor.cams = {"D"}
    /\ rphase = "failed"

\* the telescopes of the event whose camera is cam_name, in tels_dict order
Matching(cam_name) == SelectSeq(event, LAMBDA e : TelCamera(e.tel) = cam_name)

\* what the model of cam_name returns for one input
ResultFor(cam_name, inp) ==
    ModelPredict(models[cam_name], DispatchArgs(inp).args, DispatchArgs(inp).kwargs).out

\* C6: the batch handed to _reconstruct has no entry for a camera without a
\* configured model, and for each camera with one its entry holds the
\* model's results for exactly the telescopes of that camera, one each, in
\* the order of the input mapping.
C6_BatchContents ==
    (pres.kind = "ok") =>
        /\ Len(pres.combined) = 1
        /\ \A cam_name \in DOMAIN pres.combined[1] : cam_name \in DOMAIN models
        /\ \A cam_name \in DOMAIN models :
              /\ cam_name \in DOMAIN pres.combined[1]
              /\ Len(pres.combined[1][cam_name]) = Len(Matching(cam_name))
              /\ \A i \in 1..Len(Matching(cam_name)) :
                    pres.combined[1][cam_name][i]
                        = ResultFor(cam_name, Matching(cam_name)[i].inp)

\* telescopes of cameras A, A, B with a model for A only: one key, two
\* entries, in input order
C6_Witness ==
    /\ pres.kind = "ok"
    /\ DOMAIN models = {"A"}
    /\ Len(event) = 3
    /\ event[1].tel = 2 /\ event[2].tel = 3 /\ event[3].tel = 1
    /\ event[1].inp # event[3].inp
    /\ DOMAIN pres.combined[1] = {"A"}
    /\ Len(pres.combined[1]["A"]) = 2

ModelErrors ==
    {"InvalidArgumentUsageError", "ArityMismatchError", "BatchSizeMismatchError"}

\* every model call the event asks for, in the order the code makes them
RECURSIVE AllCalls(_)
AllCalls(i) ==
    IF i > Len(SupportedCameras) THEN <<>>
    ELSE LET cam_name == SupportedCameras[i]
             m == IF cam_name \in DOMAIN models THEN Matching(cam_name) ELSE <<>>
         IN [ k \in 1..Len(m) |-> [cam |-> cam_name, tel |-> m[k].tel] ]
            \o AllCalls(i + 1)

\* C7: when a model call fails, the error is the outcome of predict, the
\* failing call is the last model call made, _reconstruct is not invoked and
\* nothing is returned; the registry is the one built at construction.
C7_FailurePropagates ==
    /\ (rphase \in {"ready", "returned", "raised"}) => (models = ctor.models)
    /\ (rphase = "raised") = (pres.kind \in ModelErrors)
    /\ (pres.kind \in ModelErrors) =>
          /\ pres.combined = <<>>
          /\ pres.result = NoShower
          /\ Len(pres.calls) >= 1
          /\ Len(pres.calls) <= Len(AllCalls(1))
          /\ \A k \in 1..Len(pres.calls) :
                /\ pres.calls[k].cam = AllCalls(1)[k].cam
                /\ pres.calls[k].tel = AllCalls(1)[k].tel
                /\ pres.calls[k].kind
                      = IF k = Len(pres.calls) THEN pres.kind ELSE "ok"

\* the first of three calls fails: the two others are never made
C7_Witness ==
    /\ rphase = "raised"
    /\ pres.kind = "BatchSizeMismatchError"
    /\ Len(AllCalls(1)) = 3
    /\ Len(pres.calls) = 1

\* the input of the telescope a call was made for
InputOf(tel_id) == (CHOOSE e \in { event[i] : i \in 1..Len(event) } : e.tel = tel_id).inp

\* C9 (as claimed): a sequence of any kind, list or tuple, is passed as
\* positional arguments element by element, a mapping as named arguments,
\* and only a bare value as one positional argument.
C9_SequencesPositional ==
    \A k \in 1..Len(pres.calls) :
        LET inp == InputOf(pres.calls[k].tel)
        IN /\ (inp.shape \in {"list", "tuple"})
                => (pres.calls[k].args = inp.items /\ pres.calls[k].kwargs = EmptyMap)
           /\ (inp.shape = "dict")
                => (pres.calls[k].args = <<>> /\ pres.calls[k].kwargs = inp.named)
           /\ (inp.shape = "bare")
                => (pres.calls[k].args = inp.items /\ pres.calls[k].kwargs = EmptyMap)

\* C9 (amended): a list is passed as positional arguments element by
\* element, a dict as named arguments, and every other value, a tuple
\* included, as one positional argument.
C9_ListsPositional ==
    \A k \in 1..Len(pres.calls) :
        LET inp == InputOf(pres.calls[k].tel)
        IN /\ (inp.shape = "list")
                => (pres.calls[k].args = inp.items /\ pres.calls[k].kwargs = EmptyMap)
           /\ (inp.shape = "dict")
                => (pres.calls[k].args = <<>> /\ pres.calls[k].kwargs = inp.named)
           /\ (inp.shape = "bare")
                => (pres.calls[k].args = inp.items /\ pres.calls[k].kwargs = EmptyMap)
           /\ (inp.shape = "tuple")
                => /\ pres.calls[k].args = <<TupleValue(inp.items)>>
                   /\ pres.calls[k].kwargs = EmptyMap

\* a tuple of two tensors reaches a one-input model as one positional value
C9_Witness ==
    /\ pres.kind = "ok"
    /\ \E k \in 1..Len(pres.calls) :
          /\ InputOf(pres.calls[k].tel).shape = "tuple"
          /\ Len(InputOf(pres.calls[k].tel).items) = 2
          /\ Len(pres.calls[k].args) = 1

\* C10: after a successful dispatch _reconstruct has been invoked exactly
\* once, and the keys of its batch are exactly the supported cameras with a
\* configured model, whatever telescopes the event holds: a configured camera
\* without a telescope in the event is a key with an empty sequence.
C10_BatchKeys ==
    /\ (pres.kind = "ok") =>
          /\ Len(pres.combined) = 1
          /\ pres.result = Reconstruct(pres.combined[1])
          /\ DOMAIN pres.combined[1] = { c \in Supported : c \in DOMAIN models }
          /\ \A c \in DOMAIN models :
                (Matching(c) = <<>>) => (pres.combined[1][c] = <<>>)
    /\ (pres.kind # "ok") => (pres.combined = <<>>)

\* B is configured and the event holds telescopes of camera A only
C10_Witness ==
    /\ pres.kind = "ok"
    /\ DOMAIN models = {"A", "B"}
    /\ Len(event) = 2
    /\ \A i \in 1..Len(event) : TelCamera(event[i].tel) = "A"
    /\ pres.combined[1]["B"] = <<>>
    /\ Len(pres.combined[1]["A"]) = 2

----------------------------------------------------------------------------
(* Properties of hessio_event_source, checked under SpecSource. *)

\* C8 (as claimed): the generator yields at most max_events events, and
\* with max_events omitted it yields every event of the stream and ends
\* without an error.
C8_AtMostMaxEvents ==
    /\ hargs.max_events.given => (Len(yielded) <= hargs.max_events.value)
    /\ (~hargs.max_events.given /\ hargs.url_ok /\ hpc \in {"returned", "raised"})
          => (herr = "none" /\ Len(yielded) = hargs.n_events)

====
